---- MODULE Spec2Model ----
(***************************************************************************)
(* A model of pond-cli: the PondClient HTTP client (client.py) and the     *)
(* typer command shell (cli.py).                                           *)
(*                                                                         *)
(* Strings are sequences of characters; a long literal of the source (a    *)
(* piece of rich markup, an exception text) is written as one element.     *)
(* An optional value (Python's None or a value) is a sequence of length 0  *)
(* or 1.                                                                   *)
(***************************************************************************)
EXTENDS Integers, Sequences, FiniteSets, TLC

VARIABLES
    mode,           \* "none", "cli" (the typer app runs a command), "lib" (PondClient used directly)
    pc,             \* position in the running command / library use
    cmd,            \* the subcommand of the invocation, or the client operation of the last call
    args,           \* the parsed arguments of the command
    stdin,          \* what store read from standard input: [read, text, isatty]
    env,            \* what os.environ gave at construction: [read, base_url, api_key]
    ctor,           \* the explicit arguments of PondClient(...): [base_url, api_key]
    client,         \* the constructed client: [ok, base_url, api_key]
    constructions,  \* number of PondClient(...) calls made
    requests,       \* the HTTP requests issued, in order
    response,       \* the outcome of the request in flight
    output,         \* the strings printed by rprint, in order
    exit_code,      \* -1 while running, then the process exit status
    raised,         \* lib mode: the exception the last call raised to its caller ("" if none)
    fm_mem,         \* format_memory's argument mem
    fm_index,       \* format_memory's argument index
    fm_out          \* format_memory's result

vars == <<mode, pc, cmd, args, stdin, env, ctor, client, constructions, requests,
          response, output, exit_code, raised, fm_mem, fm_index, fm_out>>

----------------------------------------------------------------------------
(* Bounds of the model *)

MaxStdinLen == 3
MaxTagStrLen == 3
MaxMemories == 2
MaxLibCalls == 2
MaxCreatedLen == 12
MaxTags == 6
MaxIndex == 11

(* Constants of the program *)

DateLen == 10
MaxShownTags == 5
DefaultLimit == 10
DefaultHours == 24
Timeout == 60

----------------------------------------------------------------------------
(* Python values *)

None == <<>>
Some(x) == <<x>>
IsNone(o) == Len(o) = 0
Val(o) == o[1]

Min(a, b) == IF a < b THEN a ELSE b

\* str.strip() with no argument strips these
Whitespace == {" ", "\n", "\t"}

RECURSIVE lstrip(_)
lstrip(s) == IF s # <<>> /\ Head(s) \in Whitespace THEN lstrip(Tail(s)) ELSE s

RECURSIVE rstrip(_)
rstrip(s) ==
    IF s # <<>> /\ s[Len(s)] \in Whitespace THEN rstrip(SubSeq(s, 1, Len(s) - 1)) ELSE s

\* a strip that was forgotten
strip_Identity(s) == s

strip(s) == lstrip(rstrip(s))

\* str.rstrip("/")
RECURSIVE rstrip_slash(_)
rstrip_slash(s) ==
    IF s # <<>> /\ s[Len(s)] = "/" THEN rstrip_slash(SubSeq(s, 1, Len(s) - 1)) ELSE s

\* str.split(","): the pieces between commas, empty pieces kept
RECURSIVE split_acc(_, _, _)
split_acc(s, cur, acc) ==
    IF s = <<>> THEN Append(acc, cur)
    ELSE IF Head(s) = "," THEN split_acc(Tail(s), <<>>, Append(acc, cur))
    ELSE split_acc(Tail(s), Append(cur, Head(s)), acc)

split(s) == split_acc(s, <<>>, <<>>)

\* a slice one element too long
Slice_OffByOne(s, n) == SubSeq(s, 1, Min(n + 1, Len(s)))

\* s[:n]
Slice(s, n) == SubSeq(s, 1, Min(n, Len(s)))

\* str(n) of a non-negative int
Digit(d) == <<"0", "1", "2", "3", "4", "5", "6", "7", "8", "9">>[d + 1]

RECURSIVE IntStr(_)
IntStr(n) == IF n < 10 THEN <<Digit(n)>> ELSE IntStr(n \div 10) \o <<Digit(n % 10)>>

\* str(x) of a float holding a whole number
FloatStr(n) == IntStr(n) \o <<".", "0">>

\* ", ".join(parts)
RECURSIVE Join(_, _)
Join(sep, parts) ==
    IF parts = <<>> THEN <<>>
    ELSE IF Len(parts) = 1 THEN parts[1]
    ELSE parts[1] \o sep \o Join(sep, Tail(parts))

\* all sequences over S of length at most n
RECURSIVE SeqUpTo(_, _)
SeqUpTo(S, n) ==
    IF n = 0 THEN {<<>>}
    ELSE LET shorter == SeqUpTo(S, n - 1)
         IN  shorter \cup {Append(s, x) : s \in {t \in shorter : Len(t) = n - 1}, x \in S}

----------------------------------------------------------------------------
(* client.py: PondClient *)

\* Python's `a or b` on an optional string: a when it is a non-empty string
OrElse(a, b) == IF ~IsNone(a) /\ Val(a) # <<>> THEN Val(a) ELSE b

\* os.environ.get(name, "")
EnvGet(v) == IF IsNone(v) THEN <<>> ELSE Val(v)

BaseUrlNotSet == "POND_BASE_URL not set. Set it in your environment or pass base_url."
ApiKeyNotSet == "POND_API_KEY not set. Set it in your environment or pass api_key."

NoClient == [ok |-> FALSE, error |-> "", base_url |-> <<>>, api_key |-> <<>>]

ResolveBaseUrl(base_url, e) == rstrip_slash(OrElse(base_url, EnvGet(e.base_url)))

ResolveApiKey(api_key, e) == OrElse(api_key, EnvGet(e.api_key))

\* a constructor that checks the base URL only
PondClient_init_NoKeyCheck(base_url, api_key, e) ==
    LET b == ResolveBaseUrl(base_url, e)
        k == ResolveApiKey(api_key, e)
    IN  IF b = <<>> THEN [ok |-> FALSE, error |-> BaseUrlNotSet, base_url |-> b, api_key |-> k]
        ELSE [ok |-> TRUE, error |-> "", base_url |-> b, api_key |-> k]

\* PondClient.__init__: the client, or the ValueError it raises
PondClient_init(base_url, api_key, e) ==
    LET b == ResolveBaseUrl(base_url, e)
        k == ResolveApiKey(api_key, e)
    IN  IF b = <<>> THEN [ok |-> FALSE, error |-> BaseUrlNotSet, base_url |-> b, api_key |-> k]
        ELSE IF k = <<>> THEN [ok |-> FALSE, error |-> ApiKeyNotSet, base_url |-> b, api_key |-> k]
        ELSE [ok |-> TRUE, error |-> "", base_url |-> b, api_key |-> k]

NoHeaders == [names |-> {}, content_type |-> <<>>, api_key |-> <<>>]

_headers(c) ==
    [names |-> {"Content-Type", "X-API-Key"},
     content_type |-> <<"application/json">>,
     api_key |-> c.api_key]

Url(c, endpoint) == c.base_url \o <<"/api/v1/", endpoint>>

EmptyBody ==
    [present |-> FALSE, keys |-> {}, content |-> <<>>, tags |-> <<>>, query |-> <<>>,
     limit |-> 0, hours |-> 0]

JsonBody(keys) == [EmptyBody EXCEPT !.present = TRUE, !.keys = keys]

\* the requests.post call of _post
_post(c, endpoint, data) ==
    [method |-> "POST", url |-> Url(c, endpoint), headers |-> _headers(c),
     body |-> data, timeout |-> Timeout]

\* the requests.get call of _get_no_auth
_get_no_auth(c, endpoint) ==
    [method |-> "GET", url |-> Url(c, endpoint), headers |-> NoHeaders,
     body |-> EmptyBody, timeout |-> Timeout]

\* Python truthiness of an optional list
Truthy(o) == ~IsNone(o) /\ Val(o) # <<>>

\* PondClient.store(content, tags): tags is an optional list of strings
StoreData(content, tags) ==
    IF Truthy(tags)
    THEN [JsonBody({"content", "tags"}) EXCEPT !.content = content, !.tags = Val(tags)]
    ELSE [JsonBody({"content"}) EXCEPT !.content = content]

client_store(c, content, tags) == _post(c, "store", StoreData(content, tags))

client_search(c, query, limit) ==
    _post(c, "search", [JsonBody({"query", "limit"}) EXCEPT !.query = query, !.limit = limit])

client_recent(c, hours, limit) ==
    _post(c, "recent", [JsonBody({"hours", "limit"}) EXCEPT !.hours = hours, !.limit = limit])

client_init(c) == _post(c, "init", JsonBody({}))

\* a health check sent through the authenticated GET
client_health_Authenticated(c) == [_get_no_auth(c, "health") EXCEPT !.headers = _headers(c)]

client_health(c) == _get_no_auth(c, "health")

----------------------------------------------------------------------------
(* The remote service: what a request can come back with *)

\* a JSON field of a memory or of a response: k says what is there
Field(k, s) == [k |-> k, s |-> s]
Missing == Field("missing", <<>>)
Str(s) == Field("str", s)
Null == Field("null", <<>>)
Number == Field("int", <<>>)

\* the tags field of a memory: l is the list when k = "list"
TagsField(k, l) == [k |-> k, l |-> l]

\* an element of a memories list; k = "other" is a JSON value that is no object
Mem(content, created_at, tags) ==
    [k |-> "dict", content |-> content, created_at |-> created_at, tags |-> tags]

NotAnObject == [Mem(Missing, Missing, TagsField("missing", <<>>)) EXCEPT !.k = "other"]

\* the memories field of a response: l is the list when k = "list"
MemoriesField(k, l) == [k |-> k, l |-> l]

\* a decoded response body; k = "other" is valid JSON that is no object
EmptyObject ==
    [k |-> "dict", memories |-> MemoriesField("missing", <<>>), result |-> Missing,
     status |-> Missing, version |-> Missing, database |-> Missing, embeddings |-> Missing]

NotADict == [EmptyObject EXCEPT !.k = "other"]

TagNames == <<<<"t", "1">>, <<"t", "2">>, <<"t", "3">>, <<"t", "4">>, <<"t", "5">>,
              <<"t", "6">>, <<"t", "7">>, <<"t", "8">>>>

Timestamp == <<"2", "0", "2", "5", "-", "0", "1", "-", "1", "5", "T", "1", "0", ":",
               "3", "0", ":", "0", "0", "Z">>

\* the memories a search or recent response is built from
SampleMemories ==
    { Mem(Str(<<"c">>), Str(Timestamp), TagsField("list", SubSeq(TagNames, 1, 2))),
      Mem(Str(<<"d">>), Missing, TagsField("missing", <<>>)),
      Mem(Missing, Str(SubSeq(Timestamp, 1, 4)), TagsField("list", SubSeq(TagNames, 1, 6))),
      Mem(Str(<<"e">>), Str(Timestamp), TagsField("null", <<>>)),
      Mem(Str(<<"c">>), Null, TagsField("list", <<>>)),
      Mem(Number, Str(Timestamp), TagsField("missing", <<>>)),
      Mem(Str(<<"c">>), Str(Timestamp), TagsField("int", <<>>)),
      NotAnObject }

MemoryLists == SeqUpTo(SampleMemories, MaxMemories)

Bodies(c) ==
    CASE c \in {"search", "recent"} ->
            {[EmptyObject EXCEPT !.memories = MemoriesField("list", l)] : l \in MemoryLists}
            \cup {EmptyObject, NotADict,
                  [EmptyObject EXCEPT !.memories = MemoriesField("null", <<>>)],
                  [EmptyObject EXCEPT !.memories = MemoriesField("int", <<>>)]}
      [] c = "init" ->
            {EmptyObject, NotADict,
             [EmptyObject EXCEPT !.result = Str(<<>>)],
             [EmptyObject EXCEPT !.result = Str(<<"n", "o", "w">>)]}
      [] c = "health" ->
            {[EmptyObject EXCEPT !.status = s, !.version = v, !.database = d, !.embeddings = e] :
                s \in {Missing, Str(<<"healthy">>), Str(<<"degraded">>)},
                v \in {Missing, Str(<<"1", ".", "2">>)},
                d \in {Missing, Str(<<"ok">>)},
                e \in {Missing, Str(<<"ok">>)}}
            \cup {NotADict}
      [] OTHER -> {EmptyObject, NotADict}

NoResponse == [kind |-> "none", status |-> "", valid |-> FALSE, body |-> EmptyObject]

\* the connection fails, the 60 s timeout passes, or an HTTP response arrives
Responses(c) ==
    {[NoResponse EXCEPT !.kind = k] : k \in {"ConnectionError", "Timeout"}}
    \cup {[kind |-> "http", status |-> s, valid |-> FALSE, body |-> EmptyObject] :
             s \in {"2xx", "3xx", "4xx", "5xx"}}
    \cup {[kind |-> "http", status |-> s, valid |-> TRUE, body |-> b] :
             s \in {"2xx", "3xx"}, b \in Bodies(c)}

LibResponses ==
    {[NoResponse EXCEPT !.kind = "Timeout"],
     [kind |-> "http", status |-> "5xx", valid |-> FALSE, body |-> EmptyObject],
     [kind |-> "http", status |-> "2xx", valid |-> TRUE, body |-> EmptyObject]}

\* the rest of _post / _get_no_auth once requests.post / requests.get is over:
\* raise_for_status() raises on a 4xx or 5xx status, response.json() on a bad body
Returned(r) ==
    IF r.kind # "http" THEN [exc |-> r.kind, result |-> EmptyObject]
    ELSE IF r.status \in {"4xx", "5xx"} THEN [exc |-> "HTTPError", result |-> EmptyObject]
    ELSE IF ~r.valid THEN [exc |-> "JSONDecodeError", result |-> EmptyObject]
    ELSE [exc |-> "", result |-> r.body]

----------------------------------------------------------------------------
(* cli.py: format_memory *)

Formatted(text) == [exc |-> "", text |-> text]
Raises(e) == [exc |-> e, text |-> <<>>]

\* the first line: the ordinal marker when an index is given, and the date
FirstLine(index, created) ==
    IF ~IsNone(index)
    THEN <<"[bold cyan]#">> \o IntStr(Val(index)) \o <<"[/bold cyan] [dim](">> \o created
         \o <<")[/dim]">>
    ELSE <<"[dim](">> \o created \o <<")[/dim]">>

TagMarkup(t) == <<"[dim]#">> \o t \o <<"[/dim]">>

\* ", ".join(f"[dim]#{t}[/dim]" for t in tags[:5])
TagLine(tags) ==
    LET shown == Slice(tags, MaxShownTags)
    IN  Join(<<", ">>, [i \in 1..Len(shown) |-> TagMarkup(shown[i])])

format_memory(mem, index) ==
    IF mem.k # "dict" THEN Raises("AttributeError")
    ELSE IF mem.created_at.k = "null" THEN Raises("TypeError")
    ELSE LET content == mem.content.s
             created == Slice(mem.created_at.s, DateLen)
             tags == IF mem.tags.k = "list" THEN mem.tags.l ELSE <<>>
             lines == <<FirstLine(index, created), content>>
                      \o (IF tags # <<>> THEN <<TagLine(tags)>> ELSE <<>>)
         IN  IF mem.tags.k = "int" THEN Raises("TypeError")
             ELSE IF mem.content.k = "int" THEN Raises("TypeError")
             ELSE Formatted(Join(<<"\n">>, lines))

----------------------------------------------------------------------------
(* cli.py: the commands *)

NoArgs ==
    [content_arg |-> None, content |-> <<>>, tags |-> None, tag_list |-> None,
     query |-> <<>>, limit |-> DefaultLimit, hours |-> DefaultHours]

NoStdin == [read |-> FALSE, text |-> <<>>, isatty |-> FALSE]
NoEnv == [read |-> FALSE, base_url |-> None, api_key |-> None]
NoCtor == [base_url |-> None, api_key |-> None]

\* what a run prints
StdinPrompt == <<"[yellow]Enter memory content (Ctrl+D to finish):[/yellow]">>
NoContentError == <<"[red]Error:[/red] ", "No content provided">>
ConfigError(e) == <<"[red]Error:[/red] ", e>>
StoredLine == <<"[green]Memory stored[/green]">>
NoMemoriesFound == <<"[yellow]No memories found[/yellow]">>
NoRecentMemories == <<"[yellow]No recent memories[/yellow]">>
BlankLine == <<>>
RawResponse == <<"<the decoded response>">>

\* recent's except clause copied from search and left unchanged
ErrorPrefix_CopyPaste(c) ==
    CASE c = "store" -> "[red]Error storing memory:[/red] "
      [] c \in {"search", "recent"} -> "[red]Error searching:[/red] "
      [] c = "init" -> "[red]Error initializing:[/red] "
      [] c = "health" -> "[red]Error checking health:[/red] "

\* the prefix of the except clause of each command
ErrorPrefix(c) ==
    CASE c = "store" -> "[red]Error storing memory:[/red] "
      [] c = "search" -> "[red]Error searching:[/red] "
      [] c = "recent" -> "[red]Error getting recent:[/red] "
      [] c = "init" -> "[red]Error initializing:[/red] "
      [] c = "health" -> "[red]Error checking health:[/red] "

CommandError(c, e) == <<ErrorPrefix(c), e>>

\* the header of a non-empty list
Header(c, n, hours) ==
    IF c = "search"
    THEN <<"[dim]Found ">> \o IntStr(n) \o <<" memories:[/dim]\n">>
    ELSE <<"[dim]Recent ">> \o IntStr(n) \o <<" memories (last ">> \o FloatStr(hours)
         \o <<"h):[/dim]\n">>

\* what the try block of a command printed, and the exception that ended it ("" if none)
Rendered(out, exc) == [out |-> out, exc |-> exc]

\* for i, mem in enumerate(memories, 1): rprint(format_memory(mem, i)); rprint()
RECURSIVE RenderEntries(_, _, _)
RenderEntries(memories, i, out) ==
    IF i > Len(memories) THEN Rendered(out, "")
    ELSE LET f == format_memory(memories[i], Some(i))
         IN  IF f.exc # "" THEN Rendered(out, f.exc)
             ELSE RenderEntries(memories, i + 1, out \o <<f.text, BlankLine>>)

\* the try blocks of search and recent after the client call
RenderList(c, result, hours) ==
    IF result.k # "dict" THEN Rendered(<<>>, "AttributeError")
    ELSE LET m == result.memories
         IN  CASE m.k = "list" /\ m.l # <<>> ->
                     RenderEntries(m.l, 1, <<Header(c, Len(m.l), hours)>>)
               [] m.k = "int" -> Rendered(<<>>, "TypeError")
               [] OTHER ->
                     Rendered(<<IF c = "search" THEN NoMemoriesFound ELSE NoRecentMemories>>, "")

\* the try block of init after the client call
RenderInit(result) ==
    IF result.k # "dict" THEN Rendered(<<>>, "AttributeError")
    ELSE IF result.result.s # <<>> THEN Rendered(<<result.result.s>>, "")
    ELSE Rendered(<<RawResponse>>, "")

OrDefault(f, d) == IF f.k = "missing" THEN d ELSE f.s

\* the try block of health after the client call
RenderHealth(result) ==
    IF result.k # "dict" THEN Rendered(<<>>, "AttributeError")
    ELSE LET status == OrDefault(result.status, <<"unknown">>)
             db == OrDefault(result.database, <<"unknown">>)
             emb == OrDefault(result.embeddings, <<"unknown">>)
             version == OrDefault(result.version, <<"?">>)
         IN  IF status = <<"healthy">>
             THEN Rendered(<< <<"[green]Pond is healthy[/green] (v">> \o version \o <<")">>,
                              <<"  Database: ">> \o db,
                              <<"  Embeddings: ">> \o emb >>, "")
             ELSE Rendered(<< <<"[yellow]Pond status: ">> \o status \o <<"[/yellow]">> >>, "")

\* the try block of store after the client call
RenderStore(result) == Rendered(<<StoredLine>>, "")

Render(c, a, result) ==
    CASE c = "store" -> RenderStore(result)
      [] c \in {"search", "recent"} -> RenderList(c, result, a.hours)
      [] c = "init" -> RenderInit(result)
      [] c = "health" -> RenderHealth(result)

\* a tag list whose pieces are not trimmed
TagList_NoStrip(tags) ==
    IF ~IsNone(tags) /\ Val(tags) # <<>> THEN Some(split(Val(tags))) ELSE None

\* tag_list = [t.strip() for t in tags.split(",")] if tags else None
TagList(tags) ==
    IF ~IsNone(tags) /\ Val(tags) # <<>>
    THEN LET pieces == split(Val(tags))
         IN  Some([i \in 1..Len(pieces) |-> strip(pieces[i])])
    ELSE None

\* the client call of each command
ClientCall(c, cl, a) ==
    CASE c = "store" -> client_store(cl, a.content, a.tag_list)
      [] c = "search" -> client_search(cl, a.query, a.limit)
      [] c = "recent" -> client_recent(cl, a.hours, a.limit)
      [] c = "init" -> client_init(cl)
      [] c = "health" -> client_health(cl)

----------------------------------------------------------------------------
(* Inputs *)

Commands == {"store", "search", "recent", "init", "health"}

StdinTexts == SeqUpTo({" ", "x"}, MaxStdinLen) \cup {<<"\n">>, <<" ", "\t", "\n">>}

ContentArgs == {None, Some(<<>>), Some(<<" ">>), Some(<<"h", "i">>)}

TagStrings ==
    SeqUpTo({"a", " ", ","}, MaxTagStrLen) \cup {<<"a", ",", " ", "b">>, <<" ", "a", " ", ",", "b">>}

TagArgs == {None} \cup {Some(t) : t \in TagStrings}

Queries == {<<"x">>}
Limits == {DefaultLimit, 3}
HoursArgs == {DefaultHours, 1}

EnvBaseUrls == {None, Some(<<>>), Some(<<"/">>), Some(<<"h", "/">>)}
EnvApiKeys == {None, Some(<<>>), Some(<<"k">>)}
ArgBaseUrls == {None, Some(<<>>), Some(<<"g">>)}
ArgApiKeys == {None, Some(<<>>), Some(<<"K">>)}

LibTagLists ==
    {None, Some(<<>>), Some(<< <<"a">> >>), Some(<< <<"a">>, <<"b">> >>)}

----------------------------------------------------------------------------
(* The state machine *)

NoMem == Mem(Missing, Missing, TagsField("missing", <<>>))
NoFormat == Raises("")

Init ==
    /\ mode = "none"
    /\ pc = "idle"
    /\ cmd = "none"
    /\ args = NoArgs
    /\ stdin = NoStdin
    /\ env = NoEnv
    /\ ctor = NoCtor
    /\ client = NoClient
    /\ constructions = 0
    /\ requests = <<>>
    /\ response = NoResponse
    /\ output = <<>>
    /\ exit_code = -1
    /\ raised = ""
    /\ fm_mem = NoMem
    /\ fm_index = None
    /\ fm_out = NoFormat

fm_vars == <<fm_mem, fm_index, fm_out>>

\* typer.Exit(1) or the end of the command
Exit(code) ==
    /\ exit_code' = code
    /\ pc' = "exited"

\* typer parses the command line and calls the command
Invoke(c, a) ==
    /\ pc = "idle"
    /\ mode' = "cli"
    /\ cmd' = c
    /\ args' = a
    /\ pc' = IF c = "store" THEN "store_input" ELSE "get_client"
    /\ UNCHANGED <<stdin, env, ctor, client, constructions, requests, response, output,
                   exit_code, raised, fm_vars>>

InvokeStore ==
    \E c \in ContentArgs, t \in TagArgs :
        Invoke("store", [NoArgs EXCEPT !.content_arg = c, !.tags = t])

InvokeSearch ==
    \E q \in Queries, n \in Limits :
        Invoke("search", [NoArgs EXCEPT !.query = q, !.limit = n])

InvokeRecent ==
    \E h \in HoursArgs, n \in Limits :
        Invoke("recent", [NoArgs EXCEPT !.hours = h, !.limit = n])

InvokeInit == Invoke("init", NoArgs)

InvokeHealth == Invoke("health", NoArgs)

\* store, up to the check of the content
StoreInput ==
    /\ pc = "store_input"
    /\ \E text \in StdinTexts, tty \in BOOLEAN :
         LET reads == IsNone(args.content_arg)
             content == IF reads THEN strip(text) ELSE Val(args.content_arg)
             prompt == IF reads /\ tty THEN <<StdinPrompt>> ELSE <<>>
         IN  /\ stdin' = IF reads THEN [read |-> TRUE, text |-> text, isatty |-> tty] ELSE stdin
             /\ args' = [args EXCEPT !.content = content]
             /\ IF content = <<>>
                THEN /\ output' = output \o prompt \o <<NoContentError>>
                     /\ Exit(1)
                ELSE /\ output' = output \o prompt
                     /\ pc' = "get_client"
                     /\ UNCHANGED exit_code
    /\ UNCHANGED <<mode, cmd, env, ctor, client, constructions, requests, response, raised,
                   fm_vars>>

\* get_client()
GetClient ==
    /\ pc = "get_client"
    /\ \E b \in EnvBaseUrls, k \in EnvApiKeys :
         LET e == [read |-> TRUE, base_url |-> b, api_key |-> k]
             c == PondClient_init(None, None, e)
         IN  /\ env' = e
             /\ ctor' = NoCtor
             /\ constructions' = constructions + 1
             /\ client' = c
             /\ IF c.ok
                THEN /\ pc' = "call"
                     /\ UNCHANGED <<output, exit_code>>
                ELSE /\ output' = Append(output, ConfigError(c.error))
                     /\ Exit(1)
    /\ UNCHANGED <<mode, cmd, args, stdin, requests, response, raised, fm_vars>>

\* a client call that sends its request a second time
SendRequest_Retry ==
    /\ pc = "call"
    /\ mode = "cli"
    /\ LET a == IF cmd = "store" THEN [args EXCEPT !.tag_list = TagList(args.tags)] ELSE args
           r == ClientCall(cmd, client, a)
       IN  /\ args' = a
           /\ requests' = requests \o <<r, r>>
    /\ pc' = "await"
    /\ UNCHANGED <<mode, cmd, stdin, env, ctor, client, constructions, response, output,
                   exit_code, raised, fm_vars>>

\* the command calls the client, which issues the request
SendRequest ==
    /\ pc = "call"
    /\ mode = "cli"
    /\ LET a == IF cmd = "store" THEN [args EXCEPT !.tag_list = TagList(args.tags)] ELSE args
       IN  /\ args' = a
           /\ requests' = Append(requests, ClientCall(cmd, client, a))
    /\ pc' = "await"
    /\ UNCHANGED <<mode, cmd, stdin, env, ctor, client, constructions, response, output,
                   exit_code, raised, fm_vars>>

\* requests.post / requests.get comes back
Respond ==
    /\ pc = "await"
    /\ response' \in (IF mode = "cli" THEN Responses(cmd) ELSE LibResponses)
    /\ pc' = "responded"
    /\ UNCHANGED <<mode, cmd, args, stdin, env, ctor, client, constructions, requests, output,
                   exit_code, raised, fm_vars>>

\* the rest of the command: the client returns or raises, the result is rendered
Complete ==
    /\ pc = "responded"
    /\ mode = "cli"
    /\ LET r == Returned(response)
           shown == IF r.exc # "" THEN Rendered(<<>>, r.exc) ELSE Render(cmd, args, r.result)
       IN  IF shown.exc # ""
           THEN /\ output' = output \o shown.out \o <<CommandError(cmd, shown.exc)>>
                /\ Exit(1)
           ELSE /\ output' = output \o shown.out
                /\ Exit(0)
    /\ UNCHANGED <<mode, cmd, args, stdin, env, ctor, client, constructions, requests, response,
                   raised, fm_vars>>

\* a program constructs PondClient(base_url, api_key) itself
LibConstruct ==
    /\ pc = "idle"
    /\ \E b \in ArgBaseUrls, k \in ArgApiKeys, eb \in EnvBaseUrls, ek \in EnvApiKeys :
         LET e == [read |-> TRUE, base_url |-> eb, api_key |-> ek]
             c == PondClient_init(b, k, e)
         IN  /\ env' = e
             /\ ctor' = [base_url |-> b, api_key |-> k]
             /\ client' = c
             /\ raised' = IF c.ok THEN "" ELSE "ValueError"
             /\ pc' = IF c.ok THEN "lib_ready" ELSE "lib_failed"
    /\ mode' = "lib"
    /\ constructions' = constructions + 1
    /\ UNCHANGED <<cmd, args, stdin, requests, response, output, exit_code, fm_vars>>

\* and calls one of its five operations
LibCall ==
    /\ pc = "lib_ready"
    /\ Len(requests) < MaxLibCalls
    /\ \E c \in Commands, t \in LibTagLists :
         LET a == IF c = "store"
                  THEN [NoArgs EXCEPT !.content = <<"h", "i">>, !.tag_list = t]
                  ELSE [NoArgs EXCEPT !.query = IF c = "search" THEN <<"x">> ELSE <<>>]
         IN  /\ cmd' = c
             /\ args' = a
             /\ requests' = Append(requests, ClientCall(c, client, a))
    /\ pc' = "await"
    /\ raised' = ""
    /\ UNCHANGED <<mode, stdin, env, ctor, client, constructions, response, output, exit_code,
                   fm_vars>>

\* the operation returns the decoded body or raises
LibReturn ==
    /\ pc = "responded"
    /\ mode = "lib"
    /\ raised' = Returned(response).exc
    /\ pc' = "lib_ready"
    /\ UNCHANGED <<mode, cmd, args, stdin, env, ctor, client, constructions, requests, response,
                   output, exit_code, fm_vars>>

Next ==
    \/ InvokeStore
    \/ InvokeSearch
    \/ InvokeRecent
    \/ InvokeInit
    \/ InvokeHealth
    \/ StoreInput
    \/ GetClient
    \/ SendRequest
    \/ Respond
    \/ Complete
    \/ LibConstruct
    \/ LibCall
    \/ LibReturn

Spec == Init /\ [][Next]_vars

----------------------------------------------------------------------------
(* format_memory on its own *)

Prefixes(s, n) == {SubSeq(s, 1, i) : i \in 0..Min(n, Len(s))}

\* memory records as the data model has them: content, created_at and tags of
\* the right type, each possibly missing
WellTypedMemories ==
    {Mem(c, d, t) :
        c \in {Missing, Str(<<>>), Str(<<"c", " ", "d">>)},
        d \in {Missing} \cup {Str(p) : p \in Prefixes(Timestamp, MaxCreatedLen)},
        t \in {TagsField("missing", <<>>)}
              \cup {TagsField("list", p) : p \in Prefixes(TagNames, MaxTags)}}

Indexes == {None} \cup {Some(i) : i \in 0..MaxIndex}

InitFormat ==
    /\ mode = "format"
    /\ pc = "format"
    /\ cmd = "none"
    /\ args = NoArgs
    /\ stdin = NoStdin
    /\ env = NoEnv
    /\ ctor = NoCtor
    /\ client = NoClient
    /\ constructions = 0
    /\ requests = <<>>
    /\ response = NoResponse
    /\ output = <<>>
    /\ exit_code = -1
    /\ raised = ""
    /\ fm_mem \in WellTypedMemories
    /\ fm_index \in Indexes
    /\ fm_out = NoFormat

FormatMemory ==
    /\ pc = "format"
    /\ fm_out' = format_memory(fm_mem, fm_index)
    /\ pc' = "formatted"
    /\ UNCHANGED <<mode, cmd, args, stdin, env, ctor, client, constructions, requests,
                   response, output, exit_code, raised, fm_mem, fm_index>>

NextFormat == FormatMemory

SpecFormat == InitFormat /\ [][NextFormat]_vars

----------------------------------------------------------------------------
(* The claims *)

Last(s) == s[Len(s)]

CliExited == mode = "cli" /\ pc = "exited"

\* neither the explicit argument nor the environment variable gives a non-empty value
Unavailable(arg, var) ==
    /\ IsNone(arg) \/ Val(arg) = <<>>
    /\ IsNone(var) \/ Val(var) = <<>>

ConfigMissing ==
    /\ env.read
    /\ \/ Unavailable(ctor.base_url, env.base_url)
       \/ Unavailable(ctor.api_key, env.api_key)

\* C1: whenever the base URL, the API key or both are unavailable, construction
\* fails with the configuration error (the command exits 1, the library caller
\* gets the ValueError), and no HTTP request has been issued; nor is any issued
\* before a client has been constructed.
C1_ConfigErrorBeforeAnyRequest ==
    /\ constructions = 0 => requests = <<>>
    /\ ConfigMissing =>
          /\ ~client.ok
          /\ client.error \in {BaseUrlNotSet, ApiKeyNotSet}
          /\ requests = <<>>
          /\ pc \in {"exited", "lib_failed"}
          /\ mode = "cli" => exit_code = 1 /\ Last(output) = ConfigError(client.error)
          /\ mode = "lib" => raised = "ValueError"

\* health needs no key on the wire, and still fails without one
C1_Witness ==
    /\ CliExited
    /\ cmd = "health"
    /\ env.base_url = Some(<<"h", "/">>)
    /\ env.api_key = None
    /\ exit_code = 1

Blank(text) == \A i \in 1..Len(text) : text[i] \in Whitespace

StoreWithBlankStdin ==
    /\ mode = "cli"
    /\ cmd = "store"
    /\ IsNone(args.content_arg)
    /\ stdin.read
    /\ Blank(stdin.text)

\* C2: store without positional content and with empty or whitespace-only
\* standard input ends with the "No content provided" error and exit status 1;
\* no client is constructed, the configuration is not read and no request is sent,
\* whatever --tags is.
C2_BlankStdinNeverReachesClient ==
    StoreWithBlankStdin =>
        /\ pc = "exited"
        /\ exit_code = 1
        /\ Last(output) = NoContentError
        /\ constructions = 0
        /\ ~env.read
        /\ requests = <<>>

C2_Witness ==
    /\ StoreWithBlankStdin
    /\ stdin.text = <<" ", "\t", "\n">>
    /\ args.tags = Some(<<"a", ",", " ", "b">>)
    /\ pc = "exited"

ValidationErrorOccurred == constructions = 0
ConfigurationErrorOccurred == constructions > 0 /\ ~client.ok
RequestErrorOccurred ==
    \/ response.kind \in {"ConnectionError", "Timeout"}
    \/ response.kind = "http" /\ response.status # "2xx"
DecodeErrorOccurred == response.kind = "http" /\ ~response.valid

ListedErrorOccurred ==
    \/ ValidationErrorOccurred
    \/ ConfigurationErrorOccurred
    \/ RequestErrorOccurred
    \/ DecodeErrorOccurred

\* C3: a command exits 1 exactly when a configuration, request, decode or
\* validation error occurred, and 0 in every other run.
C3_ExitOneExactlyOnListedErrors ==
    CliExited => exit_code = (IF ListedErrorOccurred THEN 1 ELSE 0)

\* the operation each command names when it fails
FailedOperation(c) ==
    CASE c = "store" -> "[red]Error storing memory:[/red] "
      [] c = "search" -> "[red]Error searching:[/red] "
      [] c = "recent" -> "[red]Error getting recent:[/red] "
      [] c = "init" -> "[red]Error initializing:[/red] "
      [] c = "health" -> "[red]Error checking health:[/red] "

\* C4 as claimed: every error that ends an invocation is printed with the prefix
\* of the operation that failed.
C4_EveryErrorHasOperationPrefix ==
    (CliExited /\ exit_code = 1) => Last(output)[1] = FailedOperation(cmd)

\* C4: every error that ends an invocation is printed, as the last thing the run
\* prints, before the process exits non-zero; an error raised by the client call
\* or while handling its result carries the prefix of the operation that failed,
\* while a configuration error and store's missing-content error carry the plain
\* "Error:" prefix.
C4_ErrorsPrintedBeforeExit ==
    (CliExited /\ exit_code = 1) =>
        /\ output # <<>>
        /\ IF requests # <<>>
           THEN Last(output)[1] = FailedOperation(cmd)
           ELSE /\ Last(output)[1] = "[red]Error:[/red] "
                /\ ValidationErrorOccurred \/ ConfigurationErrorOccurred

C4_Witness ==
    /\ CliExited
    /\ cmd = "recent"
    /\ response.kind = "http"
    /\ response.status = "4xx"
    /\ Last(output) = <<"[red]Error getting recent:[/red] ", "HTTPError">>
    /\ exit_code = 1

\* C5 as claimed: every invocation constructs exactly one client and sends at
\* most one request, on every path.
C5_ExactlyOneConstruction ==
    CliExited => constructions = 1 /\ Len(requests) <= 1

\* C5: every invocation constructs at most one client, exactly one unless store
\* fails its content check (then none), and sends at most one HTTP request, none
\* without a constructed client; no request is repeated after a failure.
C5_AtMostOneConstructionAndRequest ==
    mode = "cli" =>
        /\ constructions <= 1
        /\ Len(requests) <= 1
        /\ requests # <<>> => constructions = 1 /\ client.ok
        /\ pc = "exited" =>
              (constructions = 0 <=> (cmd = "store" /\ args.content = <<>>))

C5_Witness ==
    /\ CliExited
    /\ exit_code = 1
    /\ response.kind = "Timeout"
    /\ constructions = 1
    /\ Len(requests) = 1

\* C6: a run that ends with an error and exit status 1 printed no confirmation,
\* header or memory entry before the error (the prompt for standard input is no
\* result), for every response the server may return.
C6_NoResultOutputBeforeFailure ==
    (CliExited /\ exit_code = 1) =>
        \A i \in 1..(Len(output) - 1) : output[i] = StdinPrompt

Endpoint(r) == Last(r.url)

\* C7: every request goes to {base_url}/api/v1/{endpoint} of the operation that
\* issued it; store, search, recent and init POST with the API key and the JSON
\* content type in the headers, health GETs with no API-key header.
C7_RequestShape ==
    /\ \A i \in 1..Len(requests) :
          LET r == requests[i]
          IN  /\ r.url = client.base_url \o <<"/api/v1/">> \o <<Endpoint(r)>>
              /\ client.base_url # <<>> /\ Last(client.base_url) # "/"
              /\ Endpoint(r) \in Commands
              /\ IF Endpoint(r) = "health"
                 THEN /\ r.method = "GET"
                      /\ "X-API-Key" \notin r.headers.names
                      /\ r.headers.api_key = <<>>
                 ELSE /\ r.method = "POST"
                      /\ {"X-API-Key", "Content-Type"} \subseteq r.headers.names
                      /\ r.headers.api_key = client.api_key
                      /\ r.headers.api_key # <<>>
                      /\ r.headers.content_type = <<"application/json">>
                      /\ r.body.present
    /\ requests # <<>> => Endpoint(Last(requests)) = cmd

C7_Witness ==
    /\ mode = "lib"
    /\ Len(requests) = 2
    /\ Endpoint(requests[1]) = "health" /\ requests[1].method = "GET"
    /\ Endpoint(requests[2]) = "store" /\ requests[2].method = "POST"
    /\ requests[2].headers.api_key = <<"K">>

Commas(s) == {i \in 1..Len(s) : s[i] = ","}

\* the position of the k-th comma of s; 0 for k = 0 and Len(s) + 1 past the last
CommaAt(s, k) ==
    IF k = 0 THEN 0
    ELSE IF k > Cardinality(Commas(s)) THEN Len(s) + 1
    ELSE CHOOSE p \in Commas(s) : Cardinality({q \in Commas(s) : q < p}) = k - 1

\* the k-th comma-separated piece of s
Piece(s, k) == SubSeq(s, CommaAt(s, k - 1) + 1, CommaAt(s, k) - 1)

\* tag is piece without the whitespace around it
IsTrimOf(tag, piece) ==
    \E a, b \in 0..Len(piece) :
        /\ a + b <= Len(piece)
        /\ tag = SubSeq(piece, a + 1, Len(piece) - b)
        /\ \A i \in 1..a : piece[i] \in Whitespace
        /\ \A i \in (Len(piece) - b + 1)..Len(piece) : piece[i] \in Whitespace
        /\ tag # <<>> => tag[1] \notin Whitespace /\ Last(tag) \notin Whitespace

\* C8: the body of a store request holds the content, and its tags field is the
\* sequence of the comma-separated pieces of --tags, in order, each trimmed; with
\* no tag string, an empty one, or an empty tag list given to the client, the body
\* has no tags field.
C8_TagsSplitAndTrimmed ==
    (requests # <<>> /\ cmd = "store") =>
        LET body == Last(requests).body
        IN  /\ body.present
            /\ body.content = args.content
            /\ mode = "cli" =>
                  IF IsNone(args.tags) \/ Val(args.tags) = <<>>
                  THEN body.keys = {"content"}
                  ELSE LET t == Val(args.tags)
                       IN  /\ body.keys = {"content", "tags"}
                           /\ Len(body.tags) = Cardinality(Commas(t)) + 1
                           /\ \A k \in 1..Len(body.tags) : IsTrimOf(body.tags[k], Piece(t, k))
            /\ mode = "lib" =>
                  IF IsNone(args.tag_list) \/ Val(args.tag_list) = <<>>
                  THEN body.keys = {"content"}
                  ELSE body.keys = {"content", "tags"} /\ body.tags = Val(args.tag_list)

C8_Witness ==
    /\ mode = "cli"
    /\ cmd = "store"
    /\ args.tags = Some(<<"a", ",", " ", "b">>)
    /\ requests # <<>>
    /\ Last(requests).body.tags = << <<"a">>, <<"b">> >>

\* C9: for search and recent, a decoded response with an empty memories list or
\* none prints only the no-results message; one with n > 0 memories prints the
\* header with the count n and then exactly n entries numbered 1..n.
C9_ListRendering ==
    (/\ CliExited
     /\ cmd \in {"search", "recent"}
     /\ Returned(response).exc = ""
     /\ response.body.k = "dict"
     /\ response.body.memories.k \in {"missing", "list"}) =>
        LET l == response.body.memories.l
        IN  IF l = <<>>
            THEN output = <<IF cmd = "search" THEN NoMemoriesFound ELSE NoRecentMemories>>
            ELSE /\ Len(output) = 1 + 2 * Len(l)
                 /\ output[1] = Header(cmd, Len(l), args.hours)
                 /\ \A i \in 1..Len(l) :
                       /\ SubSeq(output[2 * i], 1, 1 + Len(IntStr(i)))
                              = <<"[bold cyan]#">> \o IntStr(i)
                       /\ output[2 * i + 1] = BlankLine

\* the elements of parts one after the other, sep between them
RECURSIVE Concat(_, _, _)
Concat(parts, sep, i) ==
    IF i > Len(parts) THEN <<>>
    ELSE (IF i > 1 THEN sep ELSE <<>>) \o parts[i] \o Concat(parts, sep, i + 1)

\* the layout of a rendered memory showing date and the tags shown
Layout(index, date, content, shown) ==
    (IF IsNone(index) THEN <<"[dim](">>
     ELSE <<"[bold cyan]#">> \o IntStr(Val(index)) \o <<"[/bold cyan] [dim](">>)
    \o date \o <<")[/dim]", "\n">> \o content
    \o (IF shown = <<>> THEN <<>>
        ELSE <<"\n">> \o Concat([i \in 1..Len(shown) |-> <<"[dim]#">> \o shown[i] \o <<"[/dim]">>],
                                <<", ">>, 1))

Newlines(text) == Cardinality({i \in 1..Len(text) : text[i] = "\n"})

\* C10: format_memory shows the first 10 characters of created_at (all of it when
\* shorter, nothing when missing), then the whole content, then a line of at most
\* the first 5 tags in their order, a line left out exactly when there are no
\* tags; the ordinal marker is there exactly when an index is given.
C10_FormatMemory ==
    pc = "formatted" =>
        LET created == fm_mem.created_at.s
            content == fm_mem.content.s
            tags == fm_mem.tags.l
            text == fm_out.text
        IN  /\ fm_out.exc = ""
            /\ \E n \in 0..Len(created), m \in 0..Len(tags) :
                  /\ n = Min(DateLen, Len(created))
                  /\ m = Min(MaxShownTags, Len(tags))
                  /\ text = Layout(fm_index, SubSeq(created, 1, n), content, SubSeq(tags, 1, m))
            /\ (text[1] = "[bold cyan]#") <=> ~IsNone(fm_index)
            /\ Newlines(text) = (IF tags = <<>> THEN 1 ELSE 2)

C10_Witness ==
    /\ pc = "formatted"
    /\ fm_mem.created_at = Str(SubSeq(Timestamp, 1, 12))
    /\ Len(fm_mem.tags.l) = 6
    /\ fm_index = Some(11)
    /\ fm_out.text =
          <<"[bold cyan]#", "1", "1", "[/bold cyan] [dim](">> \o SubSeq(Timestamp, 1, 10)
          \o <<")[/dim]", "\n">> \o fm_mem.content.s \o <<"\n">>
          \o <<"[dim]#", "t", "1", "[/dim]", ", ", "[dim]#", "t", "2", "[/dim]", ", ",
               "[dim]#", "t", "3", "[/dim]", ", ", "[dim]#", "t", "4", "[/dim]", ", ",
               "[dim]#", "t", "5", "[/dim]">>

====
